---- MODULE Spec2Model ----
(***************************************************************************)
(* A model of MKTools' main.py: address-range sweep (ping_sweep), the SNMP *)
(* client (snmp_get / snmp_set / fetch / cast), the collector              *)
(* (get_device_info), the serial lookup (get_device_by_serial) and the     *)
(* command-line driver (main).                                             *)
(*                                                                         *)
(* Conventions.  Python strings and byte strings are sequences of          *)
(* character codes (ASCII): "A1" is <<65, 49>>.  A dotted IPv4 address is  *)
(* the sequence of its decimal fields: "10.0.0.254" is <<10, 0, 0, 254>>.  *)
(* Python's None is the empty sequence.  A dict is a function whose domain *)
(* is a set of strings; the empty dict and the empty list are <<>>.        *)
(* An exception is the name of its class; "none" means nothing was raised. *)
(***************************************************************************)
EXTENDS Integers, Sequences, FiniteSets, TLC

\* Bounds of the model.
MaxSpan == 3
MaxHosts == 2
MaxLen == 2

None == <<>>

--------------------------------------------------------------------------
\* ipaddress.IPv4Address / IPv4Network

\* ipaddress.IPv4Address(s) accepts s: four decimal fields, each 0..255.
WellFormed(a) ==
    /\ Len(a) = 4
    /\ \A i \in 1..4 : a[i] \in 0..255

\* int(ipaddress.IPv4Address(a))
IPv4ToInt(a) == ((a[1] * 256 + a[2]) * 256 + a[3]) * 256 + a[4]

\* str(ipaddress.IPv4Address(n))
IntToIPv4(n) ==
    << n \div (256 * 256 * 256), (n \div (256 * 256)) % 256, (n \div 256) % 256, n % 256 >>

\* ipaddress.IPv4Network("a/p") (strict): a well-formed, 0 <= p <= 32, and no
\* host bit of a set.
CidrValid(a, p) ==
    /\ WellFormed(a)
    /\ p \in 0..32
    /\ IPv4ToInt(a) % (2 ^ (32 - p)) = 0

\* IPv4Network.network_address and .broadcast_address
network_address(a, p) == a
broadcast_address(a, p) == IntToIPv4(IPv4ToInt(a) + 2 ^ (32 - p) - 1)

--------------------------------------------------------------------------
\* Raw protocol values (pyasn1 objects carried by a var-bind).
\*   Integer          v = <<n>>            (Integer32, Counter, Gauge, TimeTicks)
\*   OctetString      v = the octets
\*   IpAddress        v = the four octets  (an OctetString subclass)
\*   ObjectIdentifier v = the arcs

Digits == 48..57
Minus == {45}
Dot == {46}

RECURSIVE DigitsVal(_)
DigitsVal(s) ==
    IF s = <<>> THEN 0
    ELSE DigitsVal(SubSeq(s, 1, Len(s) - 1)) * 10 + (s[Len(s)] - 48)

Unsigned(s) == IF s # <<>> /\ s[1] \in Minus THEN Tail(s) ELSE s

\* The byte strings int() accepts, over the model's alphabet: an optional
\* sign and one or more digits.
IsIntLiteral(s) ==
    LET u == Unsigned(s) IN u # <<>> /\ \A i \in 1..Len(u) : u[i] \in Digits

IntLiteralVal(s) ==
    IF s[1] \in Minus THEN 0 - DigitsVal(Tail(s)) ELSE DigitsVal(s)

\* The byte strings float() accepts, over the model's alphabet: an optional
\* sign, digits with at most one point, at least one digit.
IsFloatLiteral(s) ==
    LET u == Unsigned(s) IN
    /\ \A i \in 1..Len(u) : u[i] \in Digits \cup Dot
    /\ \E i \in 1..Len(u) : u[i] \in Digits
    /\ Cardinality({i \in 1..Len(u) : u[i] \in Dot}) <= 1

Returned(tag, val) == [exc |-> "none", tag |-> tag, val |-> val]
Raised(exc) == [exc |-> exc, tag |-> "", val |-> <<>>]

\* int(value): Integer.__int__; OctetString.__int__ is int(bytes); other
\* types define no conversion.
PyInt(value) ==
    IF value.type = "Integer" THEN Returned("Integer", value.v)
    ELSE IF value.type \in {"OctetString", "IpAddress"}
         THEN IF IsIntLiteral(value.v)
              THEN Returned("Integer", <<IntLiteralVal(value.v)>>)
              ELSE Raised("ValueError")
         ELSE Raised("TypeError")

\* float(value)
PyFloat(value) ==
    IF value.type = "Integer" THEN Returned("Float", value.v)
    ELSE IF value.type \in {"OctetString", "IpAddress"}
         THEN IF IsFloatLiteral(value.v)
              THEN Returned("Float", value.v)
              ELSE Raised("ValueError")
         ELSE Raised("TypeError")

\* The decimal digits of a natural number, as character codes.
RECURSIVE DecRepr(_)
DecRepr(n) ==
    IF n < 10 THEN <<48 + n>> ELSE Append(DecRepr(n \div 10), 48 + (n % 10))

RECURSIVE Dotted(_)
Dotted(nums) ==
    IF nums = <<>> THEN <<>>
    ELSE IF Len(nums) = 1 THEN DecRepr(nums[1])
    ELSE DecRepr(nums[1]) \o <<46>> \o Dotted(Tail(nums))

\* rfc1902.IpAddress.prettyPrint(value): the unbound method run on value,
\* so value's own rendering: dotted decimal for an IpAddress and for an
\* ObjectIdentifier, the text for an OctetString.
PrettyPrint(value) ==
    IF value.type \in {"IpAddress", "ObjectIdentifier"}
    THEN Returned("FormattedAddress", Dotted(value.v))
    ELSE IF value.type = "Integer"
         THEN Returned("FormattedAddress", DecRepr(value.v[1]))
         ELSE Returned("FormattedAddress", value.v)

\* str(value)
PyStr(value) == Returned("Text", value.v)

\* except (ValueError, TypeError)
Caught == {"ValueError", "TypeError"}

\* The chain with float tried before int.
cast_float_first(value) ==
    LET f == PyFloat(value) IN
    IF f.exc = "none" THEN f
    ELSE IF f.exc \notin Caught THEN f
    ELSE LET n == PyInt(value) IN
         IF n.exc = "none" THEN n
         ELSE IF n.exc \notin Caught THEN n
         ELSE LET p == PrettyPrint(value) IN
              IF p.exc = "none" THEN p
              ELSE IF p.exc \notin Caught THEN p
              ELSE PyStr(value)

\* cast(value): lines 122-131
cast(value) ==
    LET n == PyInt(value) IN
    IF n.exc = "none" THEN n
    ELSE IF n.exc \notin Caught THEN n
    ELSE LET f == PyFloat(value) IN
         IF f.exc = "none" THEN f
         ELSE IF f.exc \notin Caught THEN f
         ELSE LET p == PrettyPrint(value) IN
              IF p.exc = "none" THEN p
              ELSE IF p.exc \notin Caught THEN p
              ELSE PyStr(value)

--------------------------------------------------------------------------
\* fetch, snmp_get, snmp_set

\* One outcome of next(handler): an exception (exc # "none"), or the tuple
\* (error_indication, error_status, error_index, var_binds).  An absent
\* error indication (None) is "".  A var-bind is [name, value], name being
\* str(var_bind[0]): the identifier in dotted form without a leading dot.
Outcome(exc, ind, status, var_binds) ==
    [exc |-> exc, error_indication |-> ind, error_status |-> status,
     var_binds |-> var_binds]

OctetString(s) == [type |-> "OctetString", v |-> s]
IpAddress(a) == [type |-> "IpAddress", v |-> a]
Integer32(n) == [type |-> "Integer", v |-> <<n>>]
ObjectIdentifier(arcs) == [type |-> "ObjectIdentifier", v |-> arcs]

model_oid == "1.3.6.1.2.1.1.1.0"
serial_oid == "1.3.6.1.2.1.43.5.1.1.17.1"
location_oid == "1.3.6.1.2.1.1.6.0"
ip_address_oid == "1.3.6.1.4.1.18334.1.1.2.1.5.7.1.1.1.3.1"

\* The test without its second conjunct.
accepted_indication_only(error_indication, error_status) == error_indication = ""

\* line 150: not error_indication and not error_status
accepted(error_indication, error_status) ==
    error_indication = "" /\ error_status = 0

\* lines 151-153: items[str(var_bind[0])] = cast(var_bind[1]), in order
RECURSIVE build_items(_, _)
build_items(var_binds, items) ==
    IF var_binds = <<>> THEN items
    ELSE LET vb == Head(var_binds)
             c == cast(vb.value)
         IN build_items(Tail(var_binds),
                [k \in DOMAIN items \cup {vb.name} |->
                    IF k = vb.name THEN [tag |-> c.tag, val |-> c.val] ELSE items[k]])

\* The first exception a cast raises inside the loop of lines 152-153.
cast_exception(var_binds) ==
    IF \E i \in 1..Len(var_binds) : cast(var_binds[i].value).exc # "none"
    THEN "raised" ELSE "none"

Printed(kind, code) == [kind |-> kind, code |-> code]

\* lines 148-159: one pass of the loop body on outcome r
fetch_pass(r, acc) ==
    IF r.exc # "none"
    THEN [acc EXCEPT !.out = Append(@, Printed("exception", 0))]
    ELSE IF accepted(r.error_indication, r.error_status)
         THEN IF cast_exception(r.var_binds) # "none"
              THEN [acc EXCEPT !.out = Append(@, Printed("exception", 0))]
              ELSE [acc EXCEPT !.result = build_items(r.var_binds, <<>>)]
         ELSE IF r.error_status # 0
              THEN [acc EXCEPT !.out = Append(@, Printed("error_status", r.error_status))]
              ELSE acc

\* fetch(handler, count): handler is the sequence of outcomes of next(handler).
\* Returns the record and what was printed.
RECURSIVE fetch_loop(_, _, _, _)
fetch_loop(handler, count, i, acc) ==
    IF i > count THEN acc
    ELSE fetch_loop(handler, count, i + 1, fetch_pass(handler[i], acc))

fetch(handler, count) ==
    fetch_loop(handler, count, 1, [result |-> <<>>, out |-> <<>>])

\* snmp_get(target, communityname): one getCmd exchange, whose outcome is resp
snmp_get(target, resp) == fetch(<<resp>>, 1)

\* snmp_set(target, value_pairs, communityname): one setCmd exchange
snmp_set(target, value_pairs, resp) == fetch(<<resp>>, 1)

\* len(d) > 0 for a dict or a list
NonEmpty(d) == DOMAIN d # {}

--------------------------------------------------------------------------
\* What the network can answer.

SerialA1 == <<65, 49>>
Serial12 == <<49, 50>>
SerialTargets == {SerialA1, Serial12}

RaisedOutcome == Outcome("PySnmpError", "", 0, <<>>)
TimedOut == Outcome("none", "RequestTimedOut", 0, <<>>)
ErrorStatus(vbs) == Outcome("none", "", 2, vbs)

FullBinds(s) ==
    << [name |-> model_oid, value |-> OctetString(<<65>>)],
       [name |-> serial_oid, value |-> OctetString(s)],
       [name |-> ip_address_oid, value |-> IpAddress(<<10, 0, 0, 254>>)] >>

GetResponses ==
    {RaisedOutcome, TimedOut, ErrorStatus(FullBinds(SerialA1))}
    \cup {Outcome("none", "", 0, FullBinds(s)) : s \in SerialTargets}
    \cup {Outcome("none", "", 0, <<[name |-> model_oid, value |-> OctetString(<<65>>)]>>)}

\* The values a device may echo for a proposed value: the value, or another.
Echoes(value) == {value, <<49>>}

SetBinds(oid, value) == <<[name |-> oid, value |-> OctetString(value)]>>

SetResponses(oid, value) ==
    {RaisedOutcome, TimedOut, ErrorStatus(SetBinds(oid, value))}
    \cup {Outcome("none", "", 0, SetBinds(oid, e)) : e \in Echoes(value)}

--------------------------------------------------------------------------
\* The program's state.

VARIABLES
    entry,      \* the function that was called: main, or one called directly
    pc,         \* the position of the control thread
    argv,       \* main: the options on the command line
    mn,         \* main's locals
    cl,         \* the arguments of a direct snmp_get / snmp_set call
    sw,         \* ping_sweep's frame
    gi,         \* get_device_info's frame
    gs,         \* get_device_by_serial's frame
    cv,         \* cast's argument and result
    probes,     \* every ping_check made: [host, success]
    exch,       \* every Get / Set exchange made: [op, host, resp, result]
    log,        \* what fetch printed
    raised      \* the exception that left the called function

vars == <<entry, pc, argv, mn, cl, sw, gi, gs, cv, probes, exch, log, raised>>

Entries ==
    {"main", "ping_sweep", "get_device_info", "get_device_by_serial",
     "snmp_get", "snmp_set", "cast"}

BaseIp == IPv4ToInt(<<10, 0, 0, 254>>)
AddrPool == {IntToIPv4(BaseIp + i) : i \in 0..(MaxSpan - 1)}
BadAddrs == {<<10, 0, 0, 256>>}
Tokens == AddrPool \cup BadAddrs
Target == IntToIPv4(BaseIp)
HostPool == {IntToIPv4(BaseIp), IntToIPv4(BaseIp + 1)}
HostLists == UNION {[1..n -> HostPool] : n \in 0..MaxHosts}

Range(kind, a, b, p) == [kind |-> kind, a |-> a, b |-> b, p |-> p]
NoRange == Range("none", None, None, 0)
Ranges ==
    {NoRange}
    \cup {Range("pair", a, b, 0) : a \in Tokens, b \in Tokens}
    \cup {Range("cidr", a, None, p) : a \in Tokens, p \in 31..33}

\* The command lines: -ip, --set, -ipr (two addresses or a CIDR block), -f.
MainArgs ==
    [address : {None, Target}, set : BOOLEAN, range : Ranges,
     serial : {None, SerialA1}]
NoArgs == [address |-> None, set |-> FALSE, range |-> NoRange, serial |-> None]

CastAlphabet == {49, 50, 45, 46, 65}
RawValues ==
    {OctetString(s) : s \in UNION {[1..n -> CastAlphabet] : n \in 0..MaxLen}}
    \cup {Integer32(n) : n \in {0 - 1, 0, 12}}
    \cup {IpAddress(a) : a \in {<<10, 0, 0, 254>>, <<49, 50, 49, 50>>}}
    \cup {ObjectIdentifier(<<1, 3, 6>>)}

mn0 ==
    [address |-> None, write |-> FALSE, oid |-> "", value |-> None,
     start_ip |-> None, end_ip |-> None, serialnumber |-> None,
     execute |-> FALSE, bound |-> {}, active |-> <<>>, data |-> <<>>,
     result |-> <<>>]
cl0 == [target |-> None, oid |-> "", value |-> None]
sw0 ==
    [start |-> None, end |-> None, silent |-> FALSE, start_ip |-> 0,
     end_ip |-> 0, stop |-> 0, ip |-> 0, active_hosts |-> <<>>, count |-> 0]
gi0 == [hosts |-> <<>>, silent |-> FALSE, i |-> 1, results |-> <<>>]
gs0 ==
    [serialnumber |-> None, active_hosts |-> <<>>, dataset |-> <<>>, j |-> 1,
     compared |-> 0, ret |-> <<>>]
cv0 == [value |-> OctetString(<<>>), out |-> Raised("unset")]

StartPc(e) ==
    CASE e = "main" -> "main_parse"
      [] e = "ping_sweep" -> "sweep_begin"
      [] e = "get_device_info" -> "collect_begin"
      [] e = "get_device_by_serial" -> "collect_begin"
      [] e = "snmp_get" -> "client_get"
      [] e = "snmp_set" -> "client_set"
      [] e = "cast" -> "cast_call"

Init ==
    /\ entry \in Entries
    /\ pc = StartPc(entry)
    /\ argv \in (IF entry = "main" THEN MainArgs ELSE {NoArgs})
    /\ mn = mn0
    /\ cl \in (IF entry = "snmp_get" THEN {[cl0 EXCEPT !.target = Target]}
               ELSE IF entry = "snmp_set"
               THEN {[target |-> Target, oid |-> location_oid, value |-> v] :
                        v \in {<<65>>, <<49, 50>>}}
               ELSE {cl0})
    /\ sw \in (IF entry = "ping_sweep"
               THEN {[sw0 EXCEPT !.start = a, !.end = b, !.silent = q] :
                        a \in Tokens, b \in Tokens, q \in BOOLEAN}
               ELSE {sw0})
    /\ gs \in (IF entry = "get_device_by_serial"
               THEN {[gs0 EXCEPT !.serialnumber = t, !.active_hosts = h] :
                        t \in SerialTargets, h \in HostLists}
               ELSE {gs0})
    \* get_device_by_serial calls get_device_info(active_hosts, community, True)
    /\ gi \in (IF entry = "get_device_info"
               THEN {[gi0 EXCEPT !.hosts = h, !.silent = q] :
                        h \in HostLists, q \in BOOLEAN}
               ELSE IF entry = "get_device_by_serial"
               THEN {[gi0 EXCEPT !.hosts = gs.active_hosts, !.silent = TRUE]}
               ELSE {gi0})
    /\ cv \in (IF entry = "cast" THEN {[cv0 EXCEPT !.value = x] : x \in RawValues}
               ELSE {cv0})
    /\ probes = <<>>
    /\ exch = <<>>
    /\ log = <<>>
    /\ raised = "none"

\* The exception exc leaves the called function.
Abort(exc) == pc' = "done" /\ raised' = exc

--------------------------------------------------------------------------
\* main: the argument loop and the write / single-address requests

\* main, lines 333-412: the argument loop, the help exit, and --set's
\* check that an address was given.
ParseArgs ==
    /\ pc = "main_parse"
    /\ LET r == argv.range
           execute ==
               argv.address # None \/ r.kind # "none" \/ argv.set \/ argv.serial # None
           parsed ==
               [mn EXCEPT
                   !.address = argv.address,
                   !.write = argv.set,
                   !.oid = IF argv.set THEN location_oid ELSE "",
                   !.value = IF argv.set THEN <<65>> ELSE None,
                   !.start_ip = IF r.kind = "cidr" THEN network_address(r.a, r.p) ELSE r.a,
                   !.end_ip = IF r.kind = "cidr" THEN broadcast_address(r.a, r.p) ELSE r.b,
                   !.serialnumber = argv.serial,
                   !.execute = execute]
       IN IF r.kind = "cidr" /\ ~CidrValid(r.a, r.p)
          THEN /\ Abort("ValueError")
               /\ UNCHANGED <<mn, cl>>
          ELSE /\ mn' = parsed
               /\ IF argv.address = None /\ ~execute
                  THEN Abort("SystemExit") /\ UNCHANGED cl
                  ELSE IF argv.set
                  THEN IF argv.address = None
                       THEN Abort("SystemExit") /\ UNCHANGED cl
                       ELSE /\ pc' = "client_set"
                            /\ cl' = [target |-> argv.address, oid |-> parsed.oid,
                                      value |-> parsed.value]
                            /\ UNCHANGED raised
                  ELSE IF argv.address # None
                  THEN /\ pc' = "client_get"
                       /\ cl' = [cl0 EXCEPT !.target = argv.address]
                       /\ UNCHANGED raised
                  ELSE /\ pc' = "main_exec"
                       /\ UNCHANGED <<cl, raised>>
    /\ UNCHANGED <<entry, argv, sw, gi, gs, cv, probes, exch, log>>

Exchange(op, host, resp, result) ==
    [op |-> op, host |-> host, resp |-> resp, result |-> result]

\* snmp_get(address, community): a direct call, or main line 423
ClientGet ==
    /\ pc = "client_get"
    /\ \E resp \in GetResponses :
          LET f == snmp_get(cl.target, resp) IN
          /\ exch' = Append(exch, Exchange("get", cl.target, resp, f.result))
          /\ log' = log \o f.out
    /\ pc' = IF entry = "main" THEN "main_exec" ELSE "done"
    /\ UNCHANGED <<entry, argv, mn, cl, sw, gi, gs, cv, probes, raised>>

\* snmp_set(address, dataset, community): a direct call, or main lines 413-419
ClientSet ==
    /\ pc = "client_set"
    /\ \E resp \in SetResponses(cl.oid, cl.value) :
          LET f == snmp_set(cl.target, cl.oid :> cl.value, resp) IN
          /\ exch' = Append(exch, Exchange("set", cl.target, resp, f.result))
          /\ log' = log \o f.out
    /\ pc' = IF entry = "main" THEN "main_exec" ELSE "done"
    /\ UNCHANGED <<entry, argv, mn, cl, sw, gi, gs, cv, probes, raised>>

\* main, lines 425-434: the range check and the call of ping_sweep
MainExec ==
    /\ pc = "main_exec"
    /\ IF (mn.serialnumber # None /\ mn.start_ip = None) \/ mn.end_ip = None
       THEN Abort("SystemExit") /\ UNCHANGED sw
       ELSE /\ sw' = [sw0 EXCEPT !.start = mn.start_ip, !.end = mn.end_ip,
                                 !.silent = (mn.serialnumber # None)]
            /\ pc' = "sweep_begin"
            /\ UNCHANGED raised
    /\ UNCHANGED <<entry, argv, mn, cl, gi, gs, cv, probes, exch, log>>

--------------------------------------------------------------------------
\* ping_sweep

\* len(range(a, b))
range_len(a, b) == IF b > a THEN b - a ELSE 0

\* printProgressBar(iteration), line 272: iteration / float(total)
printProgressBar(iteration, total) ==
    IF total = 0 THEN "ZeroDivisionError" ELSE "none"

\* range(start_ip, end_ip): the end address left out.
sweep_stop_short(end_ip) == end_ip

\* line 199: range(start_ip, end_ip + 1)
sweep_stop(end_ip) == end_ip + 1

\* ping_sweep, lines 192-199, up to the first item of progressBar: both
\* bounds are parsed, then progressBar takes len(iterable) and prints the
\* bar once (lines 267-277).
SweepBegin ==
    /\ pc = "sweep_begin"
    /\ IF ~WellFormed(sw.start) \/ ~WellFormed(sw.end)
       THEN Abort("ValueError") /\ UNCHANGED sw
       ELSE LET start_ip == IPv4ToInt(sw.start)
                end_ip == IPv4ToInt(sw.end)
                total == range_len(start_ip, sweep_stop(end_ip))
            IN /\ sw' = [sw EXCEPT !.start_ip = start_ip, !.end_ip = end_ip,
                                   !.stop = sweep_stop(end_ip), !.ip = start_ip]
               /\ IF printProgressBar(0, total) # "none"
                  THEN Abort(printProgressBar(0, total))
                  ELSE pc' = "sweep_loop" /\ UNCHANGED raised
    /\ UNCHANGED <<entry, argv, mn, cl, gi, gs, cv, probes, exch, log>>

\* ping_sweep, lines 199-203: one iteration; ping_check(address) answers ok
SweepProbe ==
    /\ pc = "sweep_loop"
    /\ sw.ip < sw.stop
    /\ \E ok \in BOOLEAN :
          LET address == IntToIPv4(sw.ip) IN
          /\ probes' = Append(probes, [host |-> address, success |-> ok])
          /\ sw' = [sw EXCEPT
                      !.ip = @ + 1,
                      !.count = IF ok THEN @ + 1 ELSE @,
                      !.active_hosts = IF ok THEN Append(@, address) ELSE @]
    /\ UNCHANGED <<entry, pc, argv, mn, cl, gi, gs, cv, exch, log, raised>>

\* ping_sweep, line 210, and main, lines 436-443: with live hosts the
\* collector or the lookup is called, with none the run exits.
SweepReturn ==
    /\ pc = "sweep_loop"
    /\ sw.ip >= sw.stop
    /\ IF entry = "ping_sweep"
       THEN pc' = "done" /\ UNCHANGED <<mn, gi, gs, raised>>
       ELSE LET active == sw.active_hosts IN
            IF Len(active) > 0
            THEN /\ mn' = [mn EXCEPT !.active = active, !.data = <<>>,
                                     !.bound = @ \cup {"active", "data"}]
                 /\ gs' = IF mn.serialnumber # None
                          THEN [gs0 EXCEPT !.serialnumber = mn.serialnumber,
                                           !.active_hosts = active]
                          ELSE gs
                 /\ gi' = [gi0 EXCEPT !.hosts = active,
                                      !.silent = (mn.serialnumber # None)]
                 /\ pc' = "collect_begin"
                 /\ UNCHANGED raised
            ELSE /\ mn' = [mn EXCEPT !.active = active, !.bound = @ \cup {"active"}]
                 /\ Abort("SystemExit")
                 /\ UNCHANGED <<gi, gs>>
    /\ UNCHANGED <<entry, argv, cl, sw, cv, probes, exch, log>>

--------------------------------------------------------------------------
\* get_device_info

\* get_data, lines 226-230: a non-empty record is tagged with the host and
\* appended.
get_data(results, host, data) ==
    IF NonEmpty(data)
    THEN Append(results,
            [k \in DOMAIN data \cup {"response_address"} |->
                IF k = "response_address" THEN host ELSE data[k]])
    ELSE results

\* line 249: data['1.3.6.1.2.1.43.5.1.1.17.1'] == serialnumber, a casted
\* value against a str: an int or a float never equals a str.
serial_equals(data, serialnumber) ==
    /\ data[serial_oid].tag \in {"FormattedAddress", "Text"}
    /\ data[serial_oid].val = serialnumber

\* A loop that leaves at the first record with the target serial.
collect_more_until_match(i, hosts) ==
    /\ i <= Len(hosts)
    /\ \A k \in 1..Len(gi.results) :
          ~(serial_oid \in DOMAIN gi.results[k]
            /\ serial_equals(gi.results[k], gs.serialnumber))

\* lines 235 and 240: for host in hosts
collect_more(i, hosts) == i <= Len(hosts)

\* The function get_device_info returns to.
Caller ==
    IF entry = "get_device_info" THEN "none"
    ELSE IF entry = "get_device_by_serial" \/ mn.serialnumber # None
    THEN "get_device_by_serial"
    ELSE "main"

\* get_device_info, lines 224-235: results = [], and when not silent
\* progressBar(hosts) takes len(hosts) and prints the bar once.
CollectBegin ==
    /\ pc = "collect_begin"
    /\ gi' = [gi EXCEPT !.results = <<>>, !.i = 1]
    /\ IF ~gi.silent /\ printProgressBar(0, Len(gi.hosts)) # "none"
       THEN Abort(printProgressBar(0, Len(gi.hosts)))
       ELSE pc' = "collect_loop" /\ UNCHANGED raised
    /\ UNCHANGED <<entry, argv, mn, cl, sw, gs, cv, probes, exch, log>>

\* get_device_info, lines 235-241: one iteration, one Get exchange
CollectGet ==
    /\ pc = "collect_loop"
    /\ collect_more(gi.i, gi.hosts)
    /\ \E resp \in GetResponses :
          LET host == gi.hosts[gi.i]
              f == snmp_get(host, resp)
          IN /\ exch' = Append(exch, Exchange("get", host, resp, f.result))
             /\ log' = log \o f.out
             /\ gi' = [gi EXCEPT !.i = @ + 1,
                                 !.results = get_data(@, host, f.result)]
    /\ UNCHANGED <<entry, pc, argv, mn, cl, sw, gs, cv, probes, raised>>

\* get_device_info, line 243: return results (to line 247 or line 441)
CollectReturn ==
    /\ pc = "collect_loop"
    /\ ~collect_more(gi.i, gi.hosts)
    /\ IF Caller = "get_device_by_serial"
       THEN /\ gs' = [gs EXCEPT !.dataset = gi.results, !.j = 1]
            /\ pc' = "scan"
            /\ UNCHANGED mn
       ELSE IF Caller = "main"
       THEN /\ mn' = [mn EXCEPT !.data = gi.results]
            /\ pc' = "main_report"
            /\ UNCHANGED gs
       ELSE /\ pc' = "done"
            /\ UNCHANGED <<mn, gs>>
    /\ UNCHANGED <<entry, argv, cl, sw, gi, cv, probes, exch, log, raised>>

--------------------------------------------------------------------------
\* get_device_by_serial

\* The value get_device_by_serial hands back (to line 439, or to its caller).
LookupReturns(value) ==
    /\ gs' = [gs EXCEPT !.ret = value, !.compared = @ + 1]
    /\ IF entry = "main"
       THEN /\ mn' = [mn EXCEPT !.result = value, !.bound = @ \cup {"result"}]
            /\ pc' = "main_report"
       ELSE /\ pc' = "done"
            /\ UNCHANGED mn
    /\ UNCHANGED raised

\* lines 248-250: one iteration of the scan
ScanStep ==
    /\ pc = "scan"
    /\ gs.j <= Len(gs.dataset)
    /\ LET data == gs.dataset[gs.j] IN
       IF serial_oid \notin DOMAIN data
       THEN /\ Abort("KeyError")
            /\ gs' = [gs EXCEPT !.compared = @ + 1]
            /\ UNCHANGED mn
       ELSE IF serial_equals(data, gs.serialnumber)
       THEN LookupReturns(data)
       ELSE /\ gs' = [gs EXCEPT !.j = @ + 1, !.compared = @ + 1]
            /\ UNCHANGED <<pc, mn, raised>>
    /\ UNCHANGED <<entry, argv, cl, sw, gi, cv, probes, exch, log>>

\* line 251: return []
ScanReturn ==
    /\ pc = "scan"
    /\ gs.j > Len(gs.dataset)
    /\ gs' = [gs EXCEPT !.ret = <<>>]
    /\ IF entry = "main"
       THEN /\ mn' = [mn EXCEPT !.result = <<>>, !.bound = @ \cup {"result"}]
            /\ pc' = "main_report"
       ELSE /\ pc' = "done"
            /\ UNCHANGED mn
    /\ UNCHANGED <<entry, argv, cl, sw, gi, cv, probes, exch, log, raised>>

\* main, lines 444-457: the report; result is read at line 451
MainReport ==
    /\ pc = "main_report"
    /\ pc' = "done"
    /\ raised' = IF NonEmpty(mn.data) THEN "none"
                 ELSE IF "result" \notin mn.bound THEN "UnboundLocalError"
                 ELSE "none"
    /\ UNCHANGED <<entry, argv, mn, cl, sw, gi, gs, cv, probes, exch, log>>

\* cast(value), called directly
CastCall ==
    /\ pc = "cast_call"
    /\ cv' = [cv EXCEPT !.out = cast(cv.value)]
    /\ pc' = "done"
    /\ UNCHANGED <<entry, argv, mn, cl, sw, gi, gs, probes, exch, log, raised>>

Next ==
    \/ ParseArgs
    \/ ClientGet
    \/ ClientSet
    \/ MainExec
    \/ SweepBegin
    \/ SweepProbe
    \/ SweepReturn
    \/ CollectBegin
    \/ CollectGet
    \/ CollectReturn
    \/ ScanStep
    \/ ScanReturn
    \/ MainReport
    \/ CastCall

Spec == Init /\ [][Next]_vars

--------------------------------------------------------------------------
\* Properties

\* A record tagged with the address it was obtained from.
Tagged(record, host) ==
    [k \in DOMAIN record \cup {"response_address"} |->
        IF k = "response_address" THEN host ELSE record[k]]

\* The tagged records of the exchanges that returned a non-empty record,
\* in the order of the exchanges.
RECURSIVE Answers(_)
Answers(es) ==
    IF es = <<>> THEN <<>>
    ELSE (IF NonEmpty(Head(es).result)
          THEN <<Tagged(Head(es).result, Head(es).host)>>
          ELSE <<>>) \o Answers(Tail(es))

HostsOf(es) == [i \in 1..Len(es) |-> es[i].host]

\* The response of an exchange carries neither an exception, nor an error
\* indication, nor an error status.
Clean(resp) ==
    resp.exc = "none" /\ resp.error_indication = "" /\ resp.error_status = 0

\* The record a response's var-binds describe: each identifier with the
\* casted value of the last var-bind that names it.
ItemsOf(var_binds) ==
    [k \in {var_binds[i].name : i \in 1..Len(var_binds)} |->
        LET last == CHOOSE i \in 1..Len(var_binds) :
                        /\ var_binds[i].name = k
                        /\ \A j \in (i + 1)..Len(var_binds) : var_binds[j].name # k
            c == cast(var_binds[last].value)
        IN [tag |-> c.tag, val |-> c.val]]

\* C1: get_device_info returns, for every candidate list, the tagged
\* records of the candidates that answered, in input order, and raises
\* nothing.
C1_SubsequenceOfAnswers ==
    (entry = "get_device_info" /\ pc = "done") =>
        /\ raised = "none"
        /\ HostsOf(exch) = gi.hosts
        /\ gi.results = Answers(exch)
        /\ Len(gi.results) <= Len(gi.hosts)

\* C2: a range scan without a serial target that found live hosts ends
\* without an error, whatever the live hosts answer; the result holds the
\* records of the hosts that answered.
C2_RangeScanCompletes ==
    (/\ entry = "main"
     /\ argv.serial = None
     /\ argv.range.kind # "none"
     /\ pc = "done"
     /\ Len(mn.active) > 0) =>
        /\ raised = "none"
        /\ Len(mn.data) <= Len(mn.active)

\* C3: an exchange returns a non-empty record only for a response without
\* error indication and with error status zero, and then the record is the
\* response's own values by identifier; every other outcome gives the empty
\* record, and a direct Get or Set call raises nothing.
C3_AcceptRule ==
    /\ \A i \in 1..Len(exch) :
          LET e == exch[i] IN
          /\ NonEmpty(e.result) => Clean(e.resp)
          /\ Clean(e.resp) => e.result = ItemsOf(e.resp.var_binds)
    /\ (entry \in {"snmp_get", "snmp_set"} /\ pc = "done") =>
          raised = "none" /\ Len(exch) = 1

\* C3 witness: a Set whose accepted response echoes another value than the
\* proposed one, and the record holds the echoed value.
C3_Witness ==
    /\ entry = "snmp_set"
    /\ pc = "done"
    /\ NonEmpty(exch[1].result)
    /\ exch[1].resp.var_binds[1].value.v # cl.value
    /\ exch[1].result[cl.oid] = [tag |-> "Integer", val |-> <<1>>]

\* The serial number a device reported in an exchange, None without one.
ReportedSerial(e) ==
    LET at == {i \in 1..Len(e.resp.var_binds) : e.resp.var_binds[i].name = serial_oid}
    IN IF at = {} THEN None ELSE e.resp.var_binds[CHOOSE i \in at : TRUE].value.v

\* The exchanges that returned a record whose serial number is the target.
Matching(target) ==
    {i \in 1..Len(exch) : NonEmpty(exch[i].result) /\ ReportedSerial(exch[i]) = target}

\* C4: get_device_by_serial returns the first collected record, in
\* candidate order, whose serial number equals the target, tagged with its
\* address, and the empty result when there is none; it raises nothing.
C4_FirstMatchOrNotFound ==
    (entry = "get_device_by_serial" /\ pc = "done") =>
        /\ raised = "none"
        /\ LET m == Matching(gs.serialnumber) IN
           IF m = {} THEN ~NonEmpty(gs.ret)
           ELSE LET first == CHOOSE i \in m : \A j \in m : i <= j IN
                /\ NonEmpty(gs.ret)
                /\ gs.ret = Tagged(exch[first].result, exch[first].host)

\* The exchanges main made before the sweep (lines 413 and 423).
Before == IF entry = "main" /\ mn.address # None THEN 1 ELSE 0

\* The Get exchanges of the lookup's collection phase.
LookupGets == SubSeq(exch, Before + 1, Len(exch))

InLookup ==
    \/ entry = "get_device_by_serial"
    \/ /\ entry = "main"
       /\ mn.serialnumber # None
       /\ pc \in {"collect_begin", "collect_loop", "scan", "main_report"}

\* C5: in a lookup the Gets go to the candidates one by one in input
\* order, and every candidate has had its Get before the first record is
\* compared with the target, also when an earlier record matches.
C5_CollectThenScan ==
    InLookup =>
        /\ Len(LookupGets) <= Len(gs.active_hosts)
        /\ \A i \in 1..Len(LookupGets) :
              LookupGets[i].op = "get" /\ LookupGets[i].host = gs.active_hosts[i]
        /\ (gs.compared > 0 \/ pc \in {"scan", "main_report", "done"}) =>
              Len(LookupGets) = Len(gs.active_hosts)

\* C5 witness: the first of two candidates matched, and the second was
\* queried all the same.
C5_Witness ==
    /\ entry = "get_device_by_serial"
    /\ pc = "done"
    /\ Len(gs.active_hosts) = 2
    /\ gs.active_hosts[1] # gs.active_hosts[2]
    /\ NonEmpty(gs.ret)
    /\ gs.ret["response_address"] = gs.active_hosts[1]
    /\ Len(exch) = 2
    /\ NonEmpty(exch[2].result)

\* The sweep has started probing (its bounds were well formed).
Sweeping == pc \notin {"main_parse", "client_get", "client_set", "main_exec", "sweep_begin"}
            /\ entry \in {"main", "ping_sweep"}
            /\ WellFormed(sw.start) /\ WellFormed(sw.end)

\* The sweep has returned its list.
Swept ==
    \/ entry = "ping_sweep" /\ pc = "done" /\ raised = "none"
    \/ entry = "main" /\ "active" \in mn.bound

RECURSIVE Live(_)
Live(ps) ==
    IF ps = <<>> THEN <<>>
    ELSE (IF Head(ps).success THEN <<Head(ps).host>> ELSE <<>>) \o Live(Tail(ps))

\* C6: for start <= end the sweep probes the end - start + 1 addresses
\* from start to end, each once, in strictly ascending order, and returns
\* the ascending list of those whose probe succeeded.
C6_SweepEnumerates ==
    (Sweeping /\ IPv4ToInt(sw.start) <= IPv4ToInt(sw.end)) =>
        /\ \A i \in 1..Len(probes) :
              probes[i].host = IntToIPv4(IPv4ToInt(sw.start) + i - 1)
        /\ \A i \in 1..(Len(probes) - 1) :
              IPv4ToInt(probes[i].host) < IPv4ToInt(probes[i + 1].host)
        /\ sw.active_hosts = Live(probes)
        /\ Swept =>
              /\ Len(probes) = IPv4ToInt(sw.end) - IPv4ToInt(sw.start) + 1
              /\ entry = "main" => mn.active = Live(probes)

\* C6 witness: three addresses across an octet boundary, the middle one
\* alive.
C6_Witness ==
    /\ Swept
    /\ Len(probes) = 3
    /\ probes[1].host = <<10, 0, 0, 254>>
    /\ probes[3].host = <<10, 0, 1, 0>>
    /\ sw.active_hosts = <<<<10, 0, 0, 255>>>>

\* C7: with well-formed bounds and start > end the sweep probes nothing,
\* raises nothing and returns the empty list, which main treats as nothing
\* to scan.
C7_EmptyRangeIsNoError ==
    (/\ entry \in {"main", "ping_sweep"}
     /\ pc = "done"
     /\ WellFormed(sw.start) /\ WellFormed(sw.end)
     /\ IPv4ToInt(sw.start) > IPv4ToInt(sw.end)) =>
        /\ raised = IF entry = "main" THEN "SystemExit" ELSE "none"
        /\ probes = <<>>
        /\ sw.active_hosts = <<>>

RangeMalformed(r) ==
    \/ r.kind = "pair" /\ (~WellFormed(r.a) \/ ~WellFormed(r.b))
    \/ r.kind = "cidr" /\ ~CidrValid(r.a, r.p)

\* C8: a run of main with a malformed range has made no probe and no Get
\* or Set exchange when it ends.
C8_MalformedRangeNoNetwork ==
    (entry = "main" /\ RangeMalformed(argv.range) /\ pc = "done") =>
        Len(probes) = 0 /\ Len(exch) = 0

\* C9: cast raises nothing and returns the result of the first step that
\* succeeds, in the order int, float, address rendering, text; a value int
\* accepts is never a Float.
C9_CastFirstSuccess ==
    (entry = "cast" /\ pc = "done") =>
        LET v == cv.value
            o == cv.out
            i == PyInt(v)
            f == PyFloat(v)
            p == PrettyPrint(v)
        IN /\ o.exc = "none"
           /\ o.tag \in {"Integer", "Float", "FormattedAddress", "Text"}
           /\ i.exc = "none" => o = i
           /\ (i.exc # "none" /\ f.exc = "none") => o = f
           /\ (i.exc # "none" /\ f.exc # "none" /\ p.exc = "none") => o = p
           /\ (i.exc # "none" /\ f.exc # "none" /\ p.exc # "none") => o = PyStr(v)

\* C9 witness: "12", which both int and float accept, was cast to the
\* Integer 12.
C9_Witness ==
    /\ entry = "cast"
    /\ pc = "done"
    /\ cv.value = OctetString(<<49, 50>>)
    /\ cv.out = Returned("Integer", <<12>>)

\* The report of the error that made a response unacceptable.
ErrorOf(resp) ==
    IF resp.exc # "none" THEN Printed("exception", 0)
    ELSE IF resp.error_indication # "" THEN Printed("error_indication", 0)
    ELSE Printed("error_status", resp.error_status)

RECURSIVE Reports(_)
Reports(es) ==
    IF es = <<>> THEN <<>>
    ELSE (IF Clean(Head(es).resp) THEN <<>> ELSE <<ErrorOf(Head(es).resp)>>)
         \o Reports(Tail(es))

\* C10: every exchange that was not accepted had its error printed, and
\* nothing else was printed.
C10_EveryErrorReported ==
    /\ Len(log) = Len(Reports(exch))
    /\ \A i \in 1..Len(log) : log[i].kind = Reports(exch)[i].kind

====
